---- MODULE Spec2Model ----
(***************************************************************************)
(* Model of python/composio/tools/env/daytona/workspace.py:                *)
(* the module body (imports, Config), DaytonaWorkspace.__init__, setup,    *)
(* _wait and teardown, together with the calls they make on the provider   *)
(* SDK (create, get_preview_link, wait_for_sandbox_start, remove) and on   *)
(* the base class (super().teardown()).                                    *)
(*                                                                         *)
(* An Optional[T] value is a sequence: <<>> is None, <<v>> is the value v. *)
(* An environment variable is a sequence of one-character strings.         *)
(* A Python instance is a function from the names of the attributes that   *)
(* have been assigned on it to their values, so hasattr(obj, a) is         *)
(* a \in DOMAIN obj.                                                       *)
(***************************************************************************)
EXTENDS Integers, Sequences, FiniteSets, TLC

(* ------------------------------ bounds --------------------------------- *)

\* Setup and teardown are callable while the call log is shorter than this.
MaxCalls == 4

\* Configurations have at most MaxSet fields set, or at most MaxSet absent.
MaxSet == 1

(* ------------------------- program constants --------------------------- *)

TOOLSERVER_PORT == 8000

DefaultWaitTimeout == 60

ServerUrl == "https://app.daytona.io/api"

(* --------------------------- configuration ----------------------------- *)

None == <<>>

NoError == "none"

SandboxFields ==
    {"language", "id", "name", "image", "env_vars", "labels", "public",
     "target", "resources", "auto_stop_interval"}

ConfigFields == {"api_key"} \cup SandboxFields

\* One value of the declared type for each field of Config.
FieldValue(f) ==
    CASE f = "api_key"            -> "dtn-key"
      [] f = "language"           -> "python"
      [] f = "id"                 -> "my-id"
      [] f = "name"               -> "my-name"
      [] f = "image"              -> "debian:12"
      [] f = "env_vars"           -> [PATH |-> "/bin"]
      [] f = "labels"             -> [team |-> "qa"]
      [] f = "public"             -> TRUE
      [] f = "target"             -> "eu"
      [] f = "resources"          -> [cpu |-> 2]
      [] f = "auto_stop_interval" -> 15

ConfigWith(S) == [f \in ConfigFields |-> IF f \in S THEN <<FieldValue(f)>> ELSE None]

Configs ==
    {ConfigWith(S) : S \in {T \in SUBSET ConfigFields :
                               \/ Cardinality(T) <= MaxSet
                               \/ Cardinality(ConfigFields \ T) <= MaxSet}}

(* ------------------------ environment variable ------------------------- *)

Unset == <<"<unset>">>

EnvValues == {Unset, <<"3", "0">>, <<" ", "5">>, <<"a", "b", "c">>, <<>>}

Digits == <<"0", "1", "2", "3", "4", "5", "6", "7", "8", "9">>

IsDigit(c) == \E d \in 1..10 : Digits[d] = c

DigitValue(c) == (CHOOSE d \in 1..10 : Digits[d] = c) - 1

RECURSIVE Strip(_)
Strip(s) ==
    IF s = <<>> THEN s
    ELSE IF Head(s) = " " THEN Strip(Tail(s))
    ELSE IF s[Len(s)] = " " THEN Strip(SubSeq(s, 1, Len(s) - 1))
    ELSE s

RECURSIVE DigitsValue(_, _)
DigitsValue(s, acc) ==
    IF s = <<>> THEN acc ELSE DigitsValue(Tail(s), 10 * acc + DigitValue(Head(s)))

ValueError == [error |-> "ValueError", value |-> 0]

Value(v) == [error |-> NoError, value |-> v]

\* float(str): surrounding blanks are dropped, then an optional sign and a
\* run of decimal digits; anything else is a ValueError.
Float(s) ==
    LET t == Strip(s)
        neg == t # <<>> /\ Head(t) = "-"
        u == IF t # <<>> /\ Head(t) \in {"-", "+"} THEN Tail(t) ELSE t
    IN  IF u = <<>> \/ \E i \in 1..Len(u) : ~IsDigit(u[i])
        THEN ValueError
        ELSE Value(IF neg THEN 0 - DigitsValue(u, 0) ELSE DigitsValue(u, 0))

WaitTimeout_Default30(e) == IF e = Unset THEN Value(30) ELSE Float(e)

\* float(os.environ.get("WORKSPACE_WAIT_TIMEOUT", 60.0))
WaitTimeout(e) == IF e = Unset THEN Value(DefaultWaitTimeout) ELSE Float(e)

(* ------------------------------- state --------------------------------- *)

VARIABLES
    sdk,                \* what `import daytona_sdk` offers: absent, partial, full
    loaded,             \* the module: "no", "yes" or "failed"
    globals,            \* names bound in the module's namespace
    DAYTONA_INSTALLED,  \* the module's flag (meaningful once it is bound)
    config,             \* the Config handed to the constructor, None before
    env,                \* os.environ["WORKSPACE_WAIT_TIMEOUT"], or Unset
    self,               \* the workspace instance: attribute name -> value
    created,            \* number of sandboxes the provider has created
    calls,              \* the calls made on the provider and the base class
    last                \* the caller's last operation and the error it saw

vars == <<sdk, loaded, globals, DAYTONA_INSTALLED, config, env, self, created, calls, last>>

Constructed == "daytona" \in DOMAIN self

Assign(obj, a, v) == [x \in DOMAIN obj \cup {a} |-> IF x = a THEN v ELSE obj[x]]

Call(op, sb, arg, ok) == [op |-> op, sb |-> sb, arg |-> arg, ok |-> ok]

Init ==
    /\ sdk \in {"absent", "partial", "full"}
    /\ loaded = "no"
    /\ globals = {}
    /\ DAYTONA_INSTALLED = FALSE
    /\ config = None
    /\ env \in EnvValues
    /\ self = <<>>
    /\ created = 0
    /\ calls = <<>>
    /\ last = [op |-> "none", first |-> 1, error |-> NoError]

(* ---------------------------- module body ------------------------------ *)

BaseNames == {"os", "t", "dataclass", "DaytonaConfig", "ComposioSDKError",
              "RemoteWorkspace", "WorkspaceConfigType"}

SdkNames == {"Daytona", "SandboxCodeLanguage", "DaytonaSandboxTargetRegion",
             "DaytonaSandboxResources", "CreateDaytonaSandboxParams"}

\* Names the annotations of Config evaluate when the class body runs.
ConfigAnnotationNames ==
    {"SandboxCodeLanguage", "DaytonaSandboxTargetRegion", "DaytonaSandboxResources"}

\* Running the module top to bottom for a given state of the SDK.
ModuleBody(s) ==
    IF s = "absent"
    THEN \* `from daytona_sdk import DaytonaConfig` is outside the try block
         [error |-> "ImportError", globals |-> {}, installed |-> FALSE]
    ELSE LET tried == IF s = "full"
                      THEN [names |-> SdkNames, installed |-> TRUE]
                      ELSE [names |-> {"Sandbox"}, installed |-> FALSE]
             g == BaseNames \cup tried.names \cup {"DAYTONA_INSTALLED", "TOOLSERVER_PORT"}
         IN  IF ~(ConfigAnnotationNames \subseteq g)
             THEN [error |-> "NameError", globals |-> {}, installed |-> FALSE]
             ELSE [error |-> NoError,
                   globals |-> g \cup {"Config", "DaytonaWorkspace"},
                   installed |-> tried.installed]

\* import composio.tools.env.daytona.workspace
ImportModule ==
    /\ loaded = "no"
    /\ LET r == ModuleBody(sdk)
       IN  /\ loaded' = IF r.error = NoError THEN "yes" ELSE "failed"
           /\ globals' = r.globals
           /\ DAYTONA_INSTALLED' = r.installed
           /\ last' = [op |-> "import", first |-> Len(calls) + 1, error |-> r.error]
    /\ UNCHANGED <<sdk, config, env, self, created, calls>>

(* ----------------------------- construct ------------------------------- *)

CreateParams_SwapIdName(cfg) ==
    [f \in SandboxFields |->
        IF f = "id" THEN cfg["name"] ELSE IF f = "name" THEN cfg["id"] ELSE cfg[f]]

\* CreateDaytonaSandboxParams(language=config.language, ..., auto_stop_interval=...)
CreateParams(cfg) == [f \in SandboxFields |-> cfg[f]]

\* Daytona(config=DaytonaConfig(api_key=..., server_url=...))
Client(cfg) == [api_key |-> cfg["api_key"], server_url |-> ServerUrl]

\* DaytonaWorkspace(config).  super().__init__(config=config) is the base
\* class's; the attributes it assigns are not read by this class.
Construct ==
    /\ loaded = "yes"
    /\ ~Constructed
    /\ \E cfg \in Configs :
         IF ~DAYTONA_INSTALLED
         THEN /\ self' = self
              /\ config' = cfg
              /\ last' = [op |-> "construct", first |-> Len(calls) + 1,
                          error |-> "ComposioSDKError"]
         ELSE /\ self' = Assign(Assign(self, "daytona", Client(cfg)),
                                "daytona_create_sandbox_params", CreateParams(cfg))
              /\ config' = cfg
              /\ last' = [op |-> "construct", first |-> Len(calls) + 1, error |-> NoError]
    /\ UNCHANGED <<sdk, loaded, globals, DAYTONA_INSTALLED, env, created, calls>>

\* os.environ[...] = v, or del os.environ[...], by the surrounding process
\* (followed only while a setup can still read it)
SetEnv ==
    /\ Len(calls) < MaxCalls
    /\ \E v \in EnvValues \ {env} : env' = v
    /\ UNCHANGED <<sdk, loaded, globals, DAYTONA_INSTALLED, config, self, created, calls, last>>

(* ------------------------------- setup --------------------------------- *)

\* The sandbox object the provider's create returns for the n-th creation.
Sandbox(n, params) ==
    [handle |-> n,
     id |-> IF params["id"] # None THEN params["id"][1] ELSE "sandbox-" \o ToString(n)]

\* Sandbox.get_preview_link(port)
PreviewLink(sb, port) == [preview_of |-> sb.handle, port |-> port]

ToolboxUrl_NoId(server_url, id) == server_url \o "/toolbox/" \o "/toolbox"

\* f"{self.daytona.server_url}/toolbox/{self.daytona_sandbox.id}/toolbox"
ToolboxUrl(server_url, id) == server_url \o "/toolbox/" \o id \o "/toolbox"

Wait_Skipped(obj, e, waitOk) == [calls |-> <<>>, error |-> NoError]

\* DaytonaWorkspace._wait; waitOk is whether wait_for_sandbox_start returns
\* (the sandbox started in time) or raises (it did not).
Wait(obj, e, waitOk) ==
    LET timeout == WaitTimeout(e)
    IN  IF timeout.error # NoError
        THEN [calls |-> <<>>, error |-> timeout.error]
        ELSE [calls |-> <<Call("wait_for_sandbox_start", obj["daytona_sandbox"].handle,
                               timeout.value, waitOk)>>,
              error |-> IF waitOk THEN NoError ELSE "WaitError"]

SetupRun_PortsFirst(obj, e, n, createOk, previewOk, waitOk) ==
    LET params == obj["daytona_create_sandbox_params"]
        sb == Sandbox(n + 1, params)
        o0 == Assign(obj, "ports", <<>>)
    IN  IF ~createOk
        THEN [self |-> o0, created |-> n, error |-> "CreateError",
              calls |-> <<Call("create", 0, params, FALSE)>>]
        ELSE LET o1 == Assign(o0, "daytona_sandbox", sb)
                 o2 == Assign(o1, "url", ToolboxUrl(o1["daytona"].server_url, sb.id))
                 c1 == <<Call("create", sb.handle, params, TRUE)>>
             IN  IF ~previewOk
                 THEN [self |-> o2, created |-> n + 1, error |-> "PreviewError",
                       calls |-> c1 \o <<Call("get_preview_link", sb.handle,
                                              TOOLSERVER_PORT, FALSE)>>]
                 ELSE LET o3 == Assign(o2, "host", PreviewLink(sb, TOOLSERVER_PORT))
                          c2 == c1 \o <<Call("get_preview_link", sb.handle,
                                             TOOLSERVER_PORT, TRUE)>>
                          w == Wait(o3, e, waitOk)
                      IN  [self |-> o3, created |-> n + 1, error |-> w.error,
                           calls |-> c2 \o w.calls]

\* DaytonaWorkspace.setup run to its return or to the first exception.
\* createOk, previewOk and waitOk are whether each provider call returns.
SetupRun(obj, e, n, createOk, previewOk, waitOk) ==
    LET params == obj["daytona_create_sandbox_params"]
        sb == Sandbox(n + 1, params)
    IN  IF ~createOk
        THEN [self |-> obj, created |-> n, error |-> "CreateError",
              calls |-> <<Call("create", 0, params, FALSE)>>]
        ELSE LET o1 == Assign(obj, "daytona_sandbox", sb)
                 o2 == Assign(o1, "url", ToolboxUrl(o1["daytona"].server_url, sb.id))
                 c1 == <<Call("create", sb.handle, params, TRUE)>>
             IN  IF ~previewOk
                 THEN [self |-> o2, created |-> n + 1, error |-> "PreviewError",
                       calls |-> c1 \o <<Call("get_preview_link", sb.handle,
                                              TOOLSERVER_PORT, FALSE)>>]
                 ELSE LET o3 == Assign(o2, "host", PreviewLink(sb, TOOLSERVER_PORT))
                          o4 == Assign(o3, "ports", <<>>)
                          c2 == c1 \o <<Call("get_preview_link", sb.handle,
                                             TOOLSERVER_PORT, TRUE)>>
                          w == Wait(o4, e, waitOk)
                      IN  [self |-> o4, created |-> n + 1, error |-> w.error,
                           calls |-> c2 \o w.calls]

\* workspace.setup()
Setup ==
    /\ Constructed
    /\ Len(calls) < MaxCalls
    /\ \E createOk, previewOk, waitOk \in BOOLEAN :
         LET r == SetupRun(self, env, created, createOk, previewOk, waitOk)
         IN  /\ self' = r.self
             /\ created' = r.created
             /\ calls' = calls \o r.calls
             /\ last' = [op |-> "setup", first |-> Len(calls) + 1, error |-> r.error]
    /\ UNCHANGED <<sdk, loaded, globals, DAYTONA_INSTALLED, config, env>>

(* ------------------------------ teardown ------------------------------- *)

HasSandboxAttr_Always(obj) == TRUE

\* hasattr(self, "sandbox"): no statement of the class assigns an attribute
\* of that name, the handle is kept in daytona_sandbox.
HasSandboxAttr(obj) == "sandbox" \in DOMAIN obj

TeardownRun_RemoveFirst(obj, baseOk, removeOk) ==
    LET base == <<Call("super.teardown", 0, 0, baseOk)>>
    IN  IF "daytona_sandbox" \in DOMAIN obj
        THEN LET rm == <<Call("remove", obj["daytona_sandbox"].handle, 0, removeOk)>>
             IN  IF ~removeOk THEN [calls |-> rm, error |-> "RemoveError"]
                 ELSE [calls |-> rm \o base,
                       error |-> IF baseOk THEN NoError ELSE "BaseTeardownError"]
        ELSE [calls |-> base, error |-> IF baseOk THEN NoError ELSE "BaseTeardownError"]

\* DaytonaWorkspace.teardown run to its return or to the first exception.
\* baseOk and removeOk are whether super().teardown() and remove return.
TeardownRun(obj, baseOk, removeOk) ==
    LET base == <<Call("super.teardown", 0, 0, baseOk)>>
    IN  IF ~baseOk
        THEN [calls |-> base, error |-> "BaseTeardownError"]
        ELSE IF ~HasSandboxAttr(obj)
        THEN [calls |-> base, error |-> NoError]
        ELSE IF "daytona_sandbox" \notin DOMAIN obj
        THEN [calls |-> base, error |-> "AttributeError"]
        ELSE IF obj["daytona_sandbox"] = None
        THEN [calls |-> base, error |-> NoError]
        ELSE [calls |-> base \o <<Call("remove", obj["daytona_sandbox"].handle,
                                       0, removeOk)>>,
              error |-> IF removeOk THEN NoError ELSE "RemoveError"]

\* workspace.teardown()
Teardown ==
    /\ Constructed
    /\ Len(calls) < MaxCalls
    /\ \E baseOk, removeOk \in BOOLEAN :
         LET r == TeardownRun(self, baseOk, removeOk)
         IN  /\ calls' = calls \o r.calls
             /\ last' = [op |-> "teardown", first |-> Len(calls) + 1, error |-> r.error]
    /\ UNCHANGED <<sdk, loaded, globals, DAYTONA_INSTALLED, config, env, self, created>>

Next == ImportModule \/ Construct \/ SetEnv \/ Setup \/ Teardown

Spec == Init /\ [][Next]_vars

(* ------------------------------ properties ----------------------------- *)

\* C1: whenever teardown is called while a sandbox handle exists (setup's
\* create returned a sandbox and stored it) and the base class teardown
\* completes, teardown calls the provider's remove on that handle.
C1_TeardownRemovesHandle ==
    (/\ last.op = "teardown"
     /\ "daytona_sandbox" \in DOMAIN self
     /\ calls[last.first].ok)
    => \E i \in last.first..Len(calls) :
          /\ calls[i].op = "remove"
          /\ calls[i].sb = self["daytona_sandbox"].handle

\* C2: a teardown on a constructed workspace whose setup never ran makes no
\* call on the provider and raises no error of its own; only the base class
\* teardown is called.
C2_TeardownBeforeSetupIsNoOp ==
    (/\ last.op = "teardown"
     /\ \A i \in 1..Len(calls) : calls[i].op # "create")
    => /\ \A i \in 1..Len(calls) : calls[i].op = "super.teardown"
       /\ last.error \in {NoError, "BaseTeardownError"}
       /\ last.error = NoError <=> calls[last.first].ok
       /\ DOMAIN self = {"daytona", "daytona_create_sandbox_params"}

C2_Witness ==
    /\ last.op = "teardown"
    /\ last.error = NoError
    /\ \A i \in 1..Len(calls) : calls[i].op # "create"

\* C3: when daytona_sdk is not importable, the caller who loads the module
\* and constructs a DaytonaWorkspace sees the descriptive ComposioSDKError
\* and nothing else, and no client or parameter bag has been built.
C3_MissingSdkRaisesComposioSDKError ==
    (sdk = "absent" /\ last.op # "none")
    => /\ last.error = "ComposioSDKError"
       /\ ~Constructed

\* C4: setup returns normally only after create has returned a sandbox and
\* wait_for_sandbox_start on that same sandbox has returned; no wait is
\* issued before the create that returned its sandbox; and when the wait
\* raises (the sandbox did not start in time) setup does not return normally.
C4_SetupReturnsAfterCreateThenWait ==
    /\ (last.op = "setup" /\ last.error = NoError)
       => /\ Len(calls) = last.first + 2
          /\ calls[last.first].op = "create"
          /\ calls[last.first].ok
          /\ calls[last.first].sb = self["daytona_sandbox"].handle
          /\ calls[Len(calls)].op = "wait_for_sandbox_start"
          /\ calls[Len(calls)].ok
          /\ calls[Len(calls)].sb = self["daytona_sandbox"].handle
    /\ \A i \in 1..Len(calls) :
          calls[i].op = "wait_for_sandbox_start"
          => \E j \in 1..(i - 1) :
                calls[j].op = "create" /\ calls[j].ok /\ calls[j].sb = calls[i].sb
    /\ (/\ last.op = "setup"
        /\ Len(calls) >= last.first
        /\ calls[Len(calls)].op = "wait_for_sandbox_start"
        /\ ~calls[Len(calls)].ok)
       => last.error # NoError

C4_Witness ==
    /\ last.op = "setup"
    /\ last.error = NoError
    /\ calls[Len(calls)].op = "wait_for_sandbox_start"

\* C5: the timeout of every wait_for_sandbox_start issued in a step is 60
\* when WORKSPACE_WAIT_TIMEOUT is unset at that step and the number the
\* variable spells when it is set; no wait is issued on a value that spells
\* no number.
C5_TimeoutReadFromEnvAtEachWait ==
    [][\A i \in (Len(calls) + 1)..Len(calls') :
          calls'[i].op = "wait_for_sandbox_start"
          => /\ env = Unset => calls'[i].arg = 60
             /\ env = <<"3", "0">> => calls'[i].arg = 30
             /\ env = <<" ", "5">> => calls'[i].arg = 5
             /\ env \notin {<<"a", "b", "c">>, <<>>}]_vars

\* Two waits of one workspace were given different timeouts, one of them
\* the default: the variable was read at the wait, not once at construction.
C5_Witness ==
    \E i, j \in 1..Len(calls) :
        /\ calls[i].op = "wait_for_sandbox_start"
        /\ calls[j].op = "wait_for_sandbox_start"
        /\ calls[i].arg = 60
        /\ calls[j].arg = 30

\* C6: each of the ten sandbox fields of the parameter bag, as built at
\* construction and as passed to every create call, equals the same-named
\* field of the configuration (None stays None); the API key is in the
\* client and not in the bag.
C6_ParamsForwardedUnchanged ==
    Constructed
    => /\ DOMAIN self["daytona_create_sandbox_params"] = SandboxFields
       /\ \A f \in SandboxFields : self["daytona_create_sandbox_params"][f] = config[f]
       /\ self["daytona"].api_key = config["api_key"]
       /\ \A i \in 1..Len(calls) :
             calls[i].op = "create"
             => /\ DOMAIN calls[i].arg = SandboxFields
                /\ \A f \in SandboxFields : calls[i].arg[f] = config[f]

C6_Witness ==
    /\ \E i \in 1..Len(calls) : calls[i].op = "create" /\ calls[i].ok
    /\ config["id"] # None
    /\ config["name"] = None
    /\ config["api_key"] = None

\* C7: after a setup that returns normally, url is the client's base URL
\* followed by /toolbox/<id>/toolbox for the id of the sandbox that setup's
\* create returned, and host is that sandbox's preview link for port 8000.
C7_UrlAndHostOfCreatedSandbox ==
    (last.op = "setup" /\ last.error = NoError)
    => /\ self["daytona_sandbox"].handle = calls[last.first].sb
       /\ self["url"] = self["daytona"].server_url \o "/toolbox/"
                           \o self["daytona_sandbox"].id \o "/toolbox"
       /\ self["daytona"].server_url = "https://app.daytona.io/api"
       /\ self["host"] = [preview_of |-> calls[last.first].sb, port |-> 8000]
       /\ calls[last.first + 1] =
             Call("get_preview_link", calls[last.first].sb, 8000, TRUE)

C7_Witness ==
    /\ last.op = "setup"
    /\ last.error = NoError
    /\ created = 2
    /\ self["url"] = "https://app.daytona.io/api/toolbox/sandbox-2/toolbox"

\* C8: every teardown calls the base class teardown first; a remove is only
\* ever issued right after a base class teardown that completed; and when
\* the base class teardown raises, teardown issues no remove.
C8_BaseTeardownFirst ==
    /\ last.op = "teardown" => calls[last.first].op = "super.teardown"
    /\ \A i \in 1..Len(calls) :
          calls[i].op = "remove"
          => i > 1 /\ calls[i - 1].op = "super.teardown" /\ calls[i - 1].ok
    /\ (last.op = "teardown" /\ ~calls[last.first].ok)
       => /\ Len(calls) = last.first
          /\ last.error = "BaseTeardownError"

C8_Witness ==
    /\ last.op = "teardown"
    /\ last.error = "BaseTeardownError"
    /\ "daytona_sandbox" \in DOMAIN self

\* C9: once a teardown has completed normally, every sandbox this workspace
\* created at the provider has had remove called on it.
C9_NoSandboxLeaked ==
    (last.op = "teardown" /\ last.error = NoError)
    => \A h \in 1..created :
          \E i \in 1..Len(calls) : calls[i].op = "remove" /\ calls[i].sb = h

\* C10: a setup step whose create call raises reports the error to the
\* caller, leaves every attribute of the workspace as it was, and issues no
\* other call (no get_preview_link, no wait_for_sandbox_start).
C10_CreateFailureLeavesWorkspaceUnchanged ==
    [][(/\ Len(calls') > Len(calls)
        /\ calls'[Len(calls) + 1].op = "create"
        /\ ~calls'[Len(calls) + 1].ok)
       => /\ last'.op = "setup"
          /\ last'.error = "CreateError"
          /\ self' = self
          /\ created' = created
          /\ Len(calls') = Len(calls) + 1]_vars

C10_Witness ==
    /\ last.op = "setup"
    /\ last.error = "CreateError"
    /\ {"daytona_sandbox", "url", "host", "ports"} \subseteq DOMAIN self

====
